---- MODULE Spec2Model ----
(***************************************************************************)
(* dprint_markdown_formatter: the two native format_markdown entry points. *)
(*   strict      native/dprint_markdown_formatter/src/lib.rs               *)
(*               (config is a map from atoms to terms, every field         *)
(*               required and validated)                                   *)
(*   permissive  native/dprint_markdown_formatter_nif/src/lib.rs           *)
(*               (options is a keyword list, every field optional)         *)
(* The markdown engine (dprint_plugin_markdown::format_text) is external:   *)
(* its outcome is a nondeterministic choice among changed / no change /     *)
(* failure.                                                                *)
(***************************************************************************)
EXTENDS Integers, Sequences, FiniteSets, TLC

VARIABLES pc, entry, text, config, options, dprint_config,
          engine_config, engine_result, engine_calls, result

vars == <<pc, entry, text, config, options, dprint_config,
          engine_config, engine_result, engine_calls, result>>

(* ---------------------------- bounds ---------------------------------- *)

\* Number of format_markdown calls the host runs at the same time.
NumCalls == 2

\* Longest options list handed to the permissive entry point.
MaxLen == 2

Calls == 1..NumCalls

(* ------------------------- host terms --------------------------------- *)
\* A host (BEAM) term.  Host integers are unbounded, so an integer is kept
\* as two 16-bit limbs: its value is hi * 2^16 + lo with 0 <= lo < 2^16.
Limb == 2^16

Integer(h, l) == [kind |-> "int", hi |-> h, lo |-> l, s |-> ""]
Atom(a)   == [kind |-> "atom", hi |-> 0, lo |-> 0, s |-> a]
Str(b)    == [kind |-> "str", hi |-> 0, lo |-> 0, s |-> b]
Float     == [kind |-> "float", hi |-> 0, lo |-> 0, s |-> ""]

\* Term::decode::<u32>() succeeds on an integer in 0 .. 2^32 - 1.
decode_u32_ok(t) == t.kind = "int" /\ t.hi >= 0 /\ t.hi < Limb

\* Term::decode::<Atom>() succeeds on an atom only.
decode_atom_ok(t) == t.kind = "atom"

\* Term::decode::<String>() succeeds on a binary only.
decode_string_ok(t) == t.kind = "str"

(* ------------------------ result values ------------------------------- *)
Ok(v)  == [ok |-> TRUE, val |-> v]
Err(m) == [ok |-> FALSE, val |-> m]

NoResult == [ok |-> FALSE, val |-> "<pending>"]

(* --------------------- formatter configuration ------------------------ *)
Configuration(lw, tw, ek, sk, nl, ul) ==
    [line_width |-> lw, text_wrap |-> tw, emphasis_kind |-> ek,
     strong_kind |-> sk, new_line_kind |-> nl, unordered_list_kind |-> ul,
     ignore_directive |-> "dprint-ignore",
     ignore_start_directive |-> "dprint-ignore-start",
     ignore_end_directive |-> "dprint-ignore-end",
     ignore_file_directive |-> "dprint-ignore-file"]

U32(h, l) == <<h, l>>

NoConfig == Configuration(U32(0, 0), "", "", "", "", "")

(* ===================== strict entry point ============================= *)
\* Outcome of one field builder: the field's value or the error message.
FieldOk(v)  == [ok |-> TRUE, val |-> v, err |-> ""]
FieldErr(m) == [ok |-> FALSE, val |-> "", err |-> m]

build_line_width(map) ==
    IF "line_width" \notin DOMAIN map THEN [ok |-> FALSE, val |-> U32(0, 0), err |-> "Missing line_width"]
    ELSE IF ~decode_u32_ok(map["line_width"]) THEN [ok |-> FALSE, val |-> U32(0, 0), err |-> "Invalid line_width"]
    ELSE [ok |-> TRUE, val |-> U32(map["line_width"].hi, map["line_width"].lo), err |-> ""]

\* build_text_wrap with the wildcard arm falling back to Always.
build_text_wrap_fallback(map) ==
    IF "text_wrap" \notin DOMAIN map THEN FieldErr("Missing text_wrap")
    ELSE IF ~decode_atom_ok(map["text_wrap"]) THEN FieldErr("Invalid text_wrap")
    ELSE LET atom == map["text_wrap"].s IN
         IF atom = "never" THEN FieldOk("Never")
         ELSE IF atom = "maintain" THEN FieldOk("Maintain")
         ELSE FieldOk("Always")

build_text_wrap(map) ==
    IF "text_wrap" \notin DOMAIN map THEN FieldErr("Missing text_wrap")
    ELSE IF ~decode_atom_ok(map["text_wrap"]) THEN FieldErr("Invalid text_wrap")
    ELSE LET atom == map["text_wrap"].s IN
         IF atom = "always" THEN FieldOk("Always")
         ELSE IF atom = "never" THEN FieldOk("Never")
         ELSE IF atom = "maintain" THEN FieldOk("Maintain")
         ELSE FieldErr("Invalid text_wrap value")

build_emphasis_kind(map) ==
    IF "emphasis_kind" \notin DOMAIN map THEN FieldErr("Missing emphasis_kind")
    ELSE IF ~decode_atom_ok(map["emphasis_kind"]) THEN FieldErr("Invalid emphasis_kind")
    ELSE LET atom == map["emphasis_kind"].s IN
         IF atom = "asterisks" THEN FieldOk("Asterisks")
         ELSE IF atom = "underscores" THEN FieldOk("Underscores")
         ELSE FieldErr("Invalid emphasis_kind value")

\* build_strong_kind copied from build_emphasis_kind with the messages left as
\* they were.
build_strong_kind_copied(map) ==
    IF "strong_kind" \notin DOMAIN map THEN FieldErr("Missing emphasis_kind")
    ELSE IF ~decode_atom_ok(map["strong_kind"]) THEN FieldErr("Invalid emphasis_kind")
    ELSE LET atom == map["strong_kind"].s IN
         IF atom = "asterisks" THEN FieldOk("Asterisks")
         ELSE IF atom = "underscores" THEN FieldOk("Underscores")
         ELSE FieldErr("Invalid emphasis_kind value")

build_strong_kind(map) ==
    IF "strong_kind" \notin DOMAIN map THEN FieldErr("Missing strong_kind")
    ELSE IF ~decode_atom_ok(map["strong_kind"]) THEN FieldErr("Invalid strong_kind")
    ELSE LET atom == map["strong_kind"].s IN
         IF atom = "asterisks" THEN FieldOk("Asterisks")
         ELSE IF atom = "underscores" THEN FieldOk("Underscores")
         ELSE FieldErr("Invalid strong_kind value")

build_new_line_kind(map) ==
    IF "new_line_kind" \notin DOMAIN map THEN FieldErr("Missing new_line_kind")
    ELSE IF ~decode_atom_ok(map["new_line_kind"]) THEN FieldErr("Invalid new_line_kind")
    ELSE LET atom == map["new_line_kind"].s IN
         IF atom = "auto" THEN FieldOk("Auto")
         ELSE IF atom = "lf" THEN FieldOk("LineFeed")
         ELSE IF atom = "crlf" THEN FieldOk("CarriageReturnLineFeed")
         ELSE FieldErr("Invalid new_line_kind value")

\* build_unordered_list_kind taking Dashes when the key is absent.
build_unordered_list_kind_optional(map) ==
    IF "unordered_list_kind" \notin DOMAIN map THEN FieldOk("Dashes")
    ELSE IF ~decode_atom_ok(map["unordered_list_kind"]) THEN FieldErr("Invalid unordered_list_kind")
    ELSE LET atom == map["unordered_list_kind"].s IN
         IF atom = "dashes" THEN FieldOk("Dashes")
         ELSE IF atom = "asterisks" THEN FieldOk("Asterisks")
         ELSE FieldErr("Invalid unordered_list_kind value")

build_unordered_list_kind(map) ==
    IF "unordered_list_kind" \notin DOMAIN map THEN FieldErr("Missing unordered_list_kind")
    ELSE IF ~decode_atom_ok(map["unordered_list_kind"]) THEN FieldErr("Invalid unordered_list_kind")
    ELSE LET atom == map["unordered_list_kind"].s IN
         IF atom = "dashes" THEN FieldOk("Dashes")
         ELSE IF atom = "asterisks" THEN FieldOk("Asterisks")
         ELSE FieldErr("Invalid unordered_list_kind value")

\* build_dprint_config: the `?` after each builder returns its error at once.
build_dprint_config(map) ==
    LET lw == build_line_width(map)
        tw == build_text_wrap(map)
        ek == build_emphasis_kind(map)
        sk == build_strong_kind(map)
        nl == build_new_line_kind(map)
        ul == build_unordered_list_kind(map)
    IN  IF ~lw.ok THEN [ok |-> FALSE, val |-> NoConfig, err |-> lw.err]
        ELSE IF ~tw.ok THEN [ok |-> FALSE, val |-> NoConfig, err |-> tw.err]
        ELSE IF ~ek.ok THEN [ok |-> FALSE, val |-> NoConfig, err |-> ek.err]
        ELSE IF ~sk.ok THEN [ok |-> FALSE, val |-> NoConfig, err |-> sk.err]
        ELSE IF ~nl.ok THEN [ok |-> FALSE, val |-> NoConfig, err |-> nl.err]
        ELSE IF ~ul.ok THEN [ok |-> FALSE, val |-> NoConfig, err |-> ul.err]
        ELSE [ok |-> TRUE,
              val |-> Configuration(lw.val, tw.val, ek.val, sk.val, nl.val, ul.val),
              err |-> ""]

(* ============================ inputs ================================== *)
Texts == {"", "a"}

Absent == [kind |-> "absent", hi |-> 0, lo |-> 0, s |-> ""]

\* What a strict config map may hold under each key (Absent: no such key).
LineWidthTerms == {Absent, Integer(0, 80), Integer(Limb - 1, Limb - 1), Integer(-1, Limb - 1),
                   Integer(Limb, 0), Str("80")}
TextWrapTerms == {Absent, Atom("always"), Atom("never"), Atom("maintain"),
                  Atom("sometimes"), Str("never")}
EmphasisTerms == {Absent, Atom("asterisks"), Atom("underscores"), Atom("dashes"),
                  Str("underscores")}
StrongTerms == {Absent, Atom("asterisks"), Atom("underscores"), Atom("bold"), Integer(0, 1)}
NewLineTerms == {Absent, Atom("auto"), Atom("lf"), Atom("crlf"), Atom("cr"), Str("lf")}
UnorderedListTerms == {Absent, Atom("dashes"), Atom("asterisks"), Atom("plus"), Float}
ExtraTerms == {Absent, Atom("true")}

MapOf(ch) == [k \in {k \in DOMAIN ch : ch[k] # Absent} |-> ch[k]]

StrictConfigs ==
    { MapOf([line_width |-> a, text_wrap |-> b, emphasis_kind |-> c,
             strong_kind |-> d, new_line_kind |-> e, unordered_list_kind |-> f,
             format_module_attributes |-> g]) :
        a \in LineWidthTerms, b \in TextWrapTerms, c \in EmphasisTerms,
        d \in StrongTerms, e \in NewLineTerms, f \in UnorderedListTerms,
        g \in ExtraTerms }

EmptyMap == MapOf([line_width |-> Absent])

\* Outcomes of the external engine.
EngineNone == [kind |-> "none", s |-> ""]
EngineOutcomes ==
    {[kind |-> "changed", s |-> "b"], EngineNone, [kind |-> "err", s |-> "bad markdown"]}

NoOptions == [kind |-> "other", items |-> <<>>]

(* ============================ state =================================== *)
TypeOK ==
    /\ pc \in [Calls -> {"off", "idle", "called", "engine", "ran", "done"}]
    /\ entry \in [Calls -> {"strict", "permissive", "none"}]
    /\ text \in [Calls -> Texts]
    /\ engine_calls \in [Calls -> 0..1]
    /\ \A c \in Calls : result[c].ok \in BOOLEAN

InitWith(active) ==
    /\ pc = [c \in Calls |-> IF c \in active THEN "idle" ELSE "off"]
    /\ entry = [c \in Calls |-> "none"]
    /\ text = [c \in Calls |-> ""]
    /\ config = [c \in Calls |-> EmptyMap]
    /\ options = [c \in Calls |-> NoOptions]
    /\ dprint_config = [c \in Calls |-> NoConfig]
    /\ engine_config = [c \in Calls |-> NoConfig]
    /\ engine_result = [c \in Calls |-> EngineNone]
    /\ engine_calls = [c \in Calls |-> 0]
    /\ result = [c \in Calls |-> NoResult]

(* =========================== actions ================================== *)
\* The host calls the strict format_markdown(text, config).
CallStrict(c, texts, configs) ==
    /\ pc[c] = "idle"
    /\ \E t \in texts, m \in configs :
          /\ text' = [text EXCEPT ![c] = t]
          /\ config' = [config EXCEPT ![c] = m]
    /\ entry' = [entry EXCEPT ![c] = "strict"]
    /\ pc' = [pc EXCEPT ![c] = "called"]
    /\ UNCHANGED <<options, dprint_config, engine_config, engine_result,
                   engine_calls, result>>

\* strict format_markdown up to the engine call: the empty-text early
\* return, then build_dprint_config(config)?.
strict_format_markdown(c) ==
    /\ pc[c] = "called"
    /\ entry[c] = "strict"
    /\ IF text[c] = ""
       THEN /\ result' = [result EXCEPT ![c] = Ok(text[c])]
            /\ pc' = [pc EXCEPT ![c] = "done"]
            /\ UNCHANGED dprint_config
       ELSE LET built == build_dprint_config(config[c]) IN
            IF ~built.ok
            THEN /\ result' = [result EXCEPT ![c] = Err(built.err)]
                 /\ pc' = [pc EXCEPT ![c] = "done"]
                 /\ UNCHANGED dprint_config
            ELSE /\ dprint_config' = [dprint_config EXCEPT ![c] = built.val]
                 /\ pc' = [pc EXCEPT ![c] = "engine"]
                 /\ UNCHANGED result
    /\ UNCHANGED <<entry, text, config, options, engine_config, engine_result,
                   engine_calls>>

\* format_text(&text, &config, |_, _, _| Ok(None)): the external engine runs
\* on the call's own text and configuration record.
format_text(c) ==
    /\ pc[c] = "engine"
    /\ engine_config' = [engine_config EXCEPT ![c] = dprint_config[c]]
    /\ engine_calls' = [engine_calls EXCEPT ![c] = @ + 1]
    /\ \E o \in EngineOutcomes :
          engine_result' = [engine_result EXCEPT ![c] = o]
    /\ pc' = [pc EXCEPT ![c] = "ran"]
    /\ UNCHANGED <<entry, text, config, options, dprint_config, result>>

\* .map_err(|e| format!("Formatting failed: {e}")).map(|r| r.unwrap_or(text))
strict_map_result(t, o) ==
    IF o.kind = "err" THEN Err("Formatting failed: " \o o.s)
    ELSE IF o.kind = "changed" THEN Ok(o.s)
    ELSE Ok(t)

strict_return(c) ==
    /\ pc[c] = "ran"
    /\ entry[c] = "strict"
    /\ result' = [result EXCEPT ![c] = strict_map_result(text[c], engine_result[c])]
    /\ pc' = [pc EXCEPT ![c] = "done"]
    /\ UNCHANGED <<entry, text, config, options, dprint_config, engine_config,
                   engine_result, engine_calls>>

(* ==================== permissive entry point ========================== *)
\* Option<u32> / Option<String> fields of FormatOptions.
None == [some |-> FALSE, hi |-> 0, lo |-> 0, s |-> ""]
SomeU32(t) == [some |-> TRUE, hi |-> t.hi, lo |-> t.lo, s |-> ""]
SomeString(t) == [some |-> TRUE, hi |-> 0, lo |-> 0, s |-> t.s]

\* FormatOptions::default()
FormatOptions ==
    [line_width |-> None, text_wrap |-> None, emphasis_kind |-> None,
     strong_kind |-> None, new_line_kind |-> None, unordered_list_kind |-> None]

\* options.decode::<Vec<(Atom, Term)>>(): a proper list whose every element
\* is a 2-tuple with an atom first.
decode_atom_keyword_list_ok(o) ==
    /\ o.kind = "list"
    /\ \A i \in DOMAIN o.items : o.items[i].pair /\ decode_atom_ok(o.items[i].k)

\* options.decode::<Vec<(String, Term)>>(): every element is a 2-tuple with a
\* binary first.
decode_string_keyword_list_ok(o) ==
    /\ o.kind = "list"
    /\ \A i \in DOMAIN o.items : o.items[i].pair /\ decode_string_ok(o.items[i].k)

\* The atom-keyed loop body keeping the first value stored for a field.
parse_atom_pair_first_wins(fo, key_atom, value) ==
    IF key_atom = "line_width" THEN
        IF decode_u32_ok(value) /\ ~fo.line_width.some
        THEN [fo EXCEPT !.line_width = SomeU32(value)] ELSE fo
    ELSE IF key_atom \in {"text_wrap", "emphasis_kind", "strong_kind", "new_line_kind",
                          "unordered_list_kind"} THEN
        IF decode_string_ok(value) /\ ~fo[key_atom].some
        THEN [fo EXCEPT ![key_atom] = SomeString(value)] ELSE fo
    ELSE fo

\* Body of the loop over an atom-keyed list (one if / else-if chain).
parse_atom_pair(fo, key_atom, value) ==
    IF key_atom = "line_width" THEN
        IF decode_u32_ok(value) THEN [fo EXCEPT !.line_width = SomeU32(value)] ELSE fo
    ELSE IF key_atom = "text_wrap" THEN
        IF decode_string_ok(value) THEN [fo EXCEPT !.text_wrap = SomeString(value)] ELSE fo
    ELSE IF key_atom = "emphasis_kind" THEN
        IF decode_string_ok(value) THEN [fo EXCEPT !.emphasis_kind = SomeString(value)] ELSE fo
    ELSE IF key_atom = "strong_kind" THEN
        IF decode_string_ok(value) THEN [fo EXCEPT !.strong_kind = SomeString(value)] ELSE fo
    ELSE IF key_atom = "new_line_kind" THEN
        IF decode_string_ok(value) THEN [fo EXCEPT !.new_line_kind = SomeString(value)] ELSE fo
    ELSE IF key_atom = "unordered_list_kind" THEN
        IF decode_string_ok(value) THEN [fo EXCEPT !.unordered_list_kind = SomeString(value)] ELSE fo
    ELSE fo

\* The string-keyed loop body with the strong_kind arm storing into
\* emphasis_kind.
parse_string_pair_copied(fo, key, value) ==
    CASE key = "line_width" ->
            IF decode_u32_ok(value) THEN [fo EXCEPT !.line_width = SomeU32(value)] ELSE fo
      [] key = "strong_kind" ->
            IF decode_string_ok(value) THEN [fo EXCEPT !.emphasis_kind = SomeString(value)] ELSE fo
      [] key \in {"text_wrap", "emphasis_kind", "new_line_kind", "unordered_list_kind"} ->
            IF decode_string_ok(value) THEN [fo EXCEPT ![key] = SomeString(value)] ELSE fo
      [] OTHER -> fo

\* Body of the loop over a string-keyed list (match key.as_str()).
parse_string_pair(fo, key, value) ==
    CASE key = "line_width" ->
            IF decode_u32_ok(value) THEN [fo EXCEPT !.line_width = SomeU32(value)] ELSE fo
      [] key = "text_wrap" ->
            IF decode_string_ok(value) THEN [fo EXCEPT !.text_wrap = SomeString(value)] ELSE fo
      [] key = "emphasis_kind" ->
            IF decode_string_ok(value) THEN [fo EXCEPT !.emphasis_kind = SomeString(value)] ELSE fo
      [] key = "strong_kind" ->
            IF decode_string_ok(value) THEN [fo EXCEPT !.strong_kind = SomeString(value)] ELSE fo
      [] key = "new_line_kind" ->
            IF decode_string_ok(value) THEN [fo EXCEPT !.new_line_kind = SomeString(value)] ELSE fo
      [] key = "unordered_list_kind" ->
            IF decode_string_ok(value) THEN [fo EXCEPT !.unordered_list_kind = SomeString(value)] ELSE fo
      [] OTHER -> fo

RECURSIVE parse_atom_list(_, _)
parse_atom_list(fo, items) ==
    IF items = <<>> THEN fo
    ELSE parse_atom_list(parse_atom_pair(fo, Head(items).k.s, Head(items).v), Tail(items))

RECURSIVE parse_string_list(_, _)
parse_string_list(fo, items) ==
    IF items = <<>> THEN fo
    ELSE parse_string_list(parse_string_pair(fo, Head(items).k.s, Head(items).v), Tail(items))

\* parse_options giving up on the whole list at the first unknown atom key.
parse_options_unknown_resets(o) ==
    IF decode_atom_keyword_list_ok(o) THEN
        IF \E i \in DOMAIN o.items : o.items[i].k.s \notin
              {"line_width", "text_wrap", "emphasis_kind", "strong_kind", "new_line_kind",
               "unordered_list_kind"}
        THEN FormatOptions
        ELSE parse_atom_list(FormatOptions, o.items)
    ELSE IF decode_string_keyword_list_ok(o) THEN parse_string_list(FormatOptions, o.items)
    ELSE FormatOptions

parse_options(o) ==
    IF decode_atom_keyword_list_ok(o) THEN parse_atom_list(FormatOptions, o.items)
    ELSE IF decode_string_keyword_list_ok(o) THEN parse_string_list(FormatOptions, o.items)
    ELSE FormatOptions

\* opts.line_width.unwrap_or(80)
DefaultLineWidth == 80

\* The Configuration literal with Maintain in the wildcard arm of text_wrap.
permissive_config_maintain(opts) ==
    Configuration(
        IF opts.line_width.some THEN U32(opts.line_width.hi, opts.line_width.lo)
        ELSE U32(0, DefaultLineWidth),
        IF opts.text_wrap.some /\ opts.text_wrap.s = "never" THEN "Never"
        ELSE IF opts.text_wrap.some /\ opts.text_wrap.s = "always" THEN "Always"
        ELSE "Maintain",
        IF opts.emphasis_kind.some /\ opts.emphasis_kind.s = "underscores" THEN "Underscores"
        ELSE "Asterisks",
        IF opts.strong_kind.some /\ opts.strong_kind.s = "underscores" THEN "Underscores"
        ELSE "Asterisks",
        IF opts.new_line_kind.some /\ opts.new_line_kind.s = "lf" THEN "LineFeed"
        ELSE IF opts.new_line_kind.some /\ opts.new_line_kind.s = "crlf" THEN "CarriageReturnLineFeed"
        ELSE "Auto",
        IF opts.unordered_list_kind.some /\ opts.unordered_list_kind.s = "asterisks" THEN "Asterisks"
        ELSE "Dashes")

\* The Configuration literal of the permissive format_markdown.
permissive_config(opts) ==
    Configuration(
        IF opts.line_width.some THEN U32(opts.line_width.hi, opts.line_width.lo)
        ELSE U32(0, DefaultLineWidth),
        IF opts.text_wrap.some /\ opts.text_wrap.s = "never" THEN "Never"
        ELSE IF opts.text_wrap.some /\ opts.text_wrap.s = "maintain" THEN "Maintain"
        ELSE "Always",
        IF opts.emphasis_kind.some /\ opts.emphasis_kind.s = "underscores" THEN "Underscores"
        ELSE "Asterisks",
        IF opts.strong_kind.some /\ opts.strong_kind.s = "underscores" THEN "Underscores"
        ELSE "Asterisks",
        IF opts.new_line_kind.some /\ opts.new_line_kind.s = "lf" THEN "LineFeed"
        ELSE IF opts.new_line_kind.some /\ opts.new_line_kind.s = "crlf" THEN "CarriageReturnLineFeed"
        ELSE "Auto",
        IF opts.unordered_list_kind.some /\ opts.unordered_list_kind.s = "asterisks" THEN "Asterisks"
        ELSE "Dashes")

(* ----------------------- permissive inputs ---------------------------- *)
Pair(key, value) == [pair |-> TRUE, k |-> key, v |-> value]
\* A list element that is no 2-tuple.
NotAPair == [pair |-> FALSE, k |-> Float, v |-> Float]

List(items) == [kind |-> "list", items |-> items]

\* The values tried under each key name.
ValuesFor(name) ==
    CASE name = "line_width" -> {Integer(0, 100), Integer(Limb, 0), Str("100")}
      [] name = "text_wrap" -> {Str("never"), Str("maintain"), Str("sometimes"), Atom("never")}
      [] name = "emphasis_kind" -> {Str("underscores"), Str("bold")}
      [] name = "strong_kind" -> {Str("underscores"), Integer(0, 1)}
      [] name = "new_line_kind" -> {Str("lf"), Str("crlf"), Str("cr")}
      [] name = "unordered_list_kind" -> {Str("asterisks"), Float}
      [] OTHER -> {Str("x")}

FieldNames == {"line_width", "text_wrap", "emphasis_kind", "strong_kind",
               "new_line_kind", "unordered_list_kind"}

KeyNames == FieldNames \cup {"bogus"}

Elements ==
    UNION { {Pair(Atom(n), v), Pair(Str(n), v)} : <<n, v>> \in
              UNION { {<<n, v>> : v \in ValuesFor(n)} : n \in KeyNames } }
      \cup {Pair(Integer(0, 1), Str("never")), NotAPair}

RECURSIVE ListsUpTo(_)
ListsUpTo(n) ==
    IF n = 0 THEN {<<>>}
    ELSE LET shorter == ListsUpTo(n - 1) IN
         shorter \cup {Append(l, e) : l \in {l \in shorter : Len(l) = n - 1}, e \in Elements}

\* Lists that repeat the key text_wrap MaxLen times and end with a pair whose
\* key is unrecognized.
RepeatedKeyLists ==
    { Append(l, u) :
        l \in {l \in ListsUpTo(MaxLen) :
                 Len(l) = MaxLen /\ \A i \in DOMAIN l : l[i].pair /\ l[i].k.s = "text_wrap"},
        u \in {Pair(Atom("bogus"), Str("x")), Pair(Str("bogus"), Str("x"))} }

OptionTerms == {List(l) : l \in ListsUpTo(MaxLen) \cup RepeatedKeyLists} \cup {NoOptions}

(* ----------------------- permissive actions --------------------------- *)
\* The host calls the permissive format_markdown(text, options).
CallPermissive(c, texts, opts) ==
    /\ pc[c] = "idle"
    /\ \E t \in texts, o \in opts :
          /\ text' = [text EXCEPT ![c] = t]
          /\ options' = [options EXCEPT ![c] = o]
    /\ entry' = [entry EXCEPT ![c] = "permissive"]
    /\ pc' = [pc EXCEPT ![c] = "called"]
    /\ UNCHANGED <<config, dprint_config, engine_config, engine_result,
                   engine_calls, result>>

\* The permissive entry point building its Configuration in one record that
\* every call in flight uses.
permissive_format_markdown_shared(c) ==
    /\ pc[c] = "called"
    /\ entry[c] = "permissive"
    /\ dprint_config' = [d \in Calls |-> permissive_config(parse_options(options[c]))]
    /\ pc' = [pc EXCEPT ![c] = "engine"]
    /\ UNCHANGED <<entry, text, config, options, engine_config, engine_result,
                   engine_calls, result>>

\* permissive format_markdown up to the engine call: parse_options(options),
\* then the Configuration literal.  There is no test of the text here.
permissive_format_markdown(c) ==
    /\ pc[c] = "called"
    /\ entry[c] = "permissive"
    /\ dprint_config' = [dprint_config EXCEPT ![c] = permissive_config(parse_options(options[c]))]
    /\ pc' = [pc EXCEPT ![c] = "engine"]
    /\ UNCHANGED <<entry, text, config, options, engine_config, engine_result,
                   engine_calls, result>>

\* The result mapping with a failure of the engine returned as the input text.
permissive_map_result_swallow(t, o) ==
    CASE o.kind = "changed" -> Ok(o.s)
      [] o.kind = "none" -> Ok(t)
      [] o.kind = "err" -> Ok(t)

\* match format_text(..) { Ok(Some(f)) => Ok(f), Ok(None) => Ok(text),
\*                         Err(e) => Err(format!("Formatting error: {}", e)) }
permissive_map_result(t, o) ==
    CASE o.kind = "changed" -> Ok(o.s)
      [] o.kind = "none" -> Ok(t)
      [] o.kind = "err" -> Err("Formatting error: " \o o.s)

permissive_return(c) ==
    /\ pc[c] = "ran"
    /\ entry[c] = "permissive"
    /\ result' = [result EXCEPT ![c] = permissive_map_result(text[c], engine_result[c])]
    /\ pc' = [pc EXCEPT ![c] = "done"]
    /\ UNCHANGED <<entry, text, config, options, dprint_config, engine_config,
                   engine_result, engine_calls>>

(* ======================== specifications ============================== *)
\* One strict call over every config map of StrictConfigs.
InitStrict == InitWith({1})

NextStrict ==
    \E c \in Calls :
        \/ CallStrict(c, Texts, StrictConfigs)
        \/ strict_format_markdown(c)
        \/ format_text(c)
        \/ strict_return(c)

SpecStrict == InitStrict /\ [][NextStrict]_vars

\* One permissive call over every options term of OptionTerms.
InitPermissive == InitWith({1})

NextPermissive ==
    \E c \in Calls :
        \/ CallPermissive(c, {"a"}, OptionTerms)
        \/ permissive_format_markdown(c)
        \/ format_text(c)
        \/ permissive_return(c)

SpecPermissive == InitPermissive /\ [][NextPermissive]_vars

\* NumCalls calls of either entry point, their steps interleaved.
FewConfigs ==
    { MapOf([line_width |-> Integer(0, 80), text_wrap |-> a, emphasis_kind |-> Atom("underscores"),
             strong_kind |-> Atom("asterisks"), new_line_kind |-> Atom("lf"),
             unordered_list_kind |-> Atom("dashes")]) :
        a \in {Atom("never"), Absent} }

FewOptions ==
    { List(<<>>),
      List(<<Pair(Atom("line_width"), Integer(0, 100)), Pair(Atom("text_wrap"), Str("never"))>>) }

Init == InitWith(Calls)

Next ==
    \E c \in Calls :
        \/ CallStrict(c, Texts, FewConfigs)
        \/ CallPermissive(c, Texts, FewOptions)
        \/ strict_format_markdown(c)
        \/ permissive_format_markdown(c)
        \/ format_text(c)
        \/ strict_return(c)
        \/ permissive_return(c)

Spec == Init /\ [][Next]_vars

(* ===================== vocabulary of the claims ======================= *)
\* The data-model table: allowed tokens, the configuration value each token
\* stands for, and the permissive defaults.
AllowedTokens(f) ==
    CASE f = "text_wrap" -> {"always", "never", "maintain"}
      [] f = "emphasis_kind" -> {"asterisks", "underscores"}
      [] f = "strong_kind" -> {"asterisks", "underscores"}
      [] f = "new_line_kind" -> {"auto", "lf", "crlf"}
      [] f = "unordered_list_kind" -> {"dashes", "asterisks"}
      [] OTHER -> {}

EnumValue(token) ==
    CASE token = "always" -> "Always"
      [] token = "never" -> "Never"
      [] token = "maintain" -> "Maintain"
      [] token = "asterisks" -> "Asterisks"
      [] token = "underscores" -> "Underscores"
      [] token = "auto" -> "Auto"
      [] token = "lf" -> "LineFeed"
      [] token = "crlf" -> "CarriageReturnLineFeed"
      [] token = "dashes" -> "Dashes"

DefaultConfiguration ==
    [line_width |-> <<0, 80>>, text_wrap |-> "Always", emphasis_kind |-> "Asterisks",
     strong_kind |-> "Asterisks", new_line_kind |-> "Auto", unordered_list_kind |-> "Dashes",
     ignore_directive |-> "dprint-ignore",
     ignore_start_directive |-> "dprint-ignore-start",
     ignore_end_directive |-> "dprint-ignore-end",
     ignore_file_directive |-> "dprint-ignore-file"]

IsU32(t) == t.kind = "int" /\ t.hi \in 0..(Limb - 1)

Strict(c) == entry[c] = "strict"
Permissive(c) == entry[c] = "permissive"
Started(c) == pc[c] \in {"called", "engine", "ran", "done"}

\* Strict policy: the value under field f is of the field's type and allowed.
StrictValid(f, t) ==
    IF f = "line_width" THEN IsU32(t)
    ELSE t.kind = "atom" /\ t.s \in AllowedTokens(f)

StrictMissing(m) == \E f \in FieldNames : f \notin DOMAIN m
StrictInvalid(m) == \E f \in FieldNames \cap DOMAIN m : ~StrictValid(f, m[f])
StrictUnknown(m) == \E k \in DOMAIN m : k \notin FieldNames
OthersValid(m, f) ==
    \A g \in FieldNames \ {f} : g \in DOMAIN m /\ StrictValid(g, m[g])

(* ------------------------------- C1 ----------------------------------- *)
\* C1: under both entry points and every configuration, a call whose text is
\* the empty string never invokes the engine and returns Ok("").
C1_EmptyTextSkipsEngine ==
    \A c \in Calls :
        (Started(c) /\ text[c] = "") =>
            /\ engine_calls[c] = 0
            /\ pc[c] \notin {"engine", "ran"}
            /\ (pc[c] = "done" => result[c] = Ok(""))

(* ------------------------------- C2 ----------------------------------- *)
\* C2 as stated: a strict call is rejected, without the engine, whenever the
\* map has an unknown, a missing or an invalid field, whatever the text; it
\* succeeds only when the map holds exactly the six fields, all valid.
C2_RejectsUnknownMissingInvalid ==
    \A c \in Calls :
        (Strict(c) /\ pc[c] = "done") =>
            /\ (StrictUnknown(config[c]) \/ StrictMissing(config[c]) \/ StrictInvalid(config[c]))
                  => (~result[c].ok /\ engine_calls[c] = 0)
            /\ result[c].ok =>
                  (DOMAIN config[c] = FieldNames /\ ~StrictInvalid(config[c]))

\* C2 amended: for a non-empty text a strict call is rejected, without the
\* engine, whenever one of the six fields is missing or invalid; it reaches the
\* engine, and can succeed, exactly when all six are present and valid, keys
\* beyond the six being ignored.
C2_RejectsMissingInvalid ==
    \A c \in Calls :
        (Strict(c) /\ text[c] # "") =>
            /\ (pc[c] \in {"engine", "ran", "done"} /\
                (StrictMissing(config[c]) \/ StrictInvalid(config[c])))
                  => (pc[c] = "done" /\ ~result[c].ok /\ engine_calls[c] = 0)
            /\ (pc[c] = "done" /\ result[c].ok)
                  => (~StrictMissing(config[c]) /\ ~StrictInvalid(config[c]))
            /\ (pc[c] = "done" /\ ~StrictMissing(config[c]) /\ ~StrictInvalid(config[c]))
                  => engine_calls[c] = 1

C2_Witness ==
    \E c \in Calls :
        /\ Strict(c) /\ pc[c] = "done" /\ text[c] # ""
        /\ StrictUnknown(config[c])
        /\ result[c].ok

(* ------------------------------- C3 ----------------------------------- *)
\* C3: strict call, non-empty text: when exactly one of the six fields is
\* absent and the other five are valid, the result is Err("Missing <field>")
\* and the engine is not invoked.
C3_MissingFieldNamed ==
    \A c \in Calls : \A f \in FieldNames :
        (Strict(c) /\ text[c] # "" /\ pc[c] \in {"engine", "ran", "done"}
            /\ f \notin DOMAIN config[c] /\ OthersValid(config[c], f))
        => /\ pc[c] = "done"
           /\ result[c] = Err("Missing " \o f)
           /\ engine_calls[c] = 0

C3_Witness ==
    \E c \in Calls :
        /\ Strict(c) /\ pc[c] = "done" /\ text[c] # ""
        /\ "unordered_list_kind" \notin DOMAIN config[c]
        /\ OthersValid(config[c], "unordered_list_kind")
        /\ result[c] = Err("Missing unordered_list_kind")

(* ------------------------------- C4 ----------------------------------- *)
WrongType(f, t) ==
    IF f = "line_width" THEN ~IsU32(t) ELSE t.kind # "atom"

\* C4: strict call, non-empty text: when one field holds a value of the wrong
\* type or a token outside its allowed set and the other five are valid, the
\* result is an error whose message is an invalid-field message naming that
\* field ("Invalid <field>" for a wrong type, "Invalid <field> value" for a
\* token outside the set), and the engine is not invoked.
C4_InvalidFieldNamed ==
    \A c \in Calls : \A f \in FieldNames :
        (Strict(c) /\ text[c] # "" /\ pc[c] \in {"engine", "ran", "done"}
            /\ f \in DOMAIN config[c] /\ ~StrictValid(f, config[c][f])
            /\ OthersValid(config[c], f))
        => /\ pc[c] = "done"
           /\ ~result[c].ok
           /\ result[c].val = (IF WrongType(f, config[c][f])
                               THEN "Invalid " \o f
                               ELSE "Invalid " \o f \o " value")
           /\ engine_calls[c] = 0

C4_Witness ==
    \E c \in Calls :
        /\ Strict(c) /\ pc[c] = "done" /\ text[c] # ""
        /\ "text_wrap" \in DOMAIN config[c]
        /\ config[c]["text_wrap"] = Atom("sometimes")
        /\ OthersValid(config[c], "text_wrap")
        /\ result[c] = Err("Invalid text_wrap value")

(* ----------------------- permissive vocabulary ------------------------ *)
IsPairList(o) == o.kind = "list" /\ \A i \in DOMAIN o.items : o.items[i].pair

\* The key of element e is a token or a plain string.
KeyIsName(e) == e.pair /\ e.k.kind \in {"atom", "str"}
Recognized(e) == KeyIsName(e) /\ e.k.s \in FieldNames
Unrecognized(e) == KeyIsName(e) /\ e.k.s \notin FieldNames

\* Every key of the list is a token, or every key is a plain string.
UniformKeys(o) ==
    /\ IsPairList(o)
    /\ \/ \A i \in DOMAIN o.items : o.items[i].k.kind = "atom"
       \/ \A i \in DOMAIN o.items : o.items[i].k.kind = "str"

\* The value decodes to the field's raw type.
RawDecodes(f, v) == IF f = "line_width" THEN IsU32(v) ELSE v.kind = "str"

\* The value is valid for the field.
PermissiveValid(f, v) ==
    IF f = "line_width" THEN IsU32(v)
    ELSE v.kind = "str" /\ v.s \in AllowedTokens(f)

\* What the field is to be when v is supplied for it.
Resolved(f, v) ==
    IF ~PermissiveValid(f, v) THEN DefaultConfiguration[f]
    ELSE IF f = "line_width" THEN <<v.hi, v.lo>>
    ELSE EnumValue(v.s)

Occurrences(o, f) ==
    {i \in DOMAIN o.items : Recognized(o.items[i]) /\ o.items[i].k.s = f}
Decoding(o, f) == {i \in Occurrences(o, f) : RawDecodes(f, o.items[i].v)}
Last(S) == CHOOSE i \in S : \A j \in S : j <= i

RemoveAt(items, i) == SubSeq(items, 1, i - 1) \o SubSeq(items, i + 1, Len(items))

\* The permissive call has built its configuration record.
Built(c) == Permissive(c) /\ pc[c] \in {"engine", "ran", "done"}

NoRecognizedKey(o) ==
    o.kind # "list" \/ \A i \in DOMAIN o.items : ~Recognized(o.items[i])

\* C7: a permissive call whose options supply no recognized key builds, and
\* hands to the engine, exactly the default configuration; and a permissive
\* call returns an error only when the engine failed.
C7_DefaultsWithoutRecognizedKey ==
    \A c \in Calls :
        Permissive(c) =>
            /\ (Built(c) /\ NoRecognizedKey(options[c])) =>
                  /\ dprint_config[c] = DefaultConfiguration
                  /\ pc[c] \in {"ran", "done"} => engine_config[c] = DefaultConfiguration
            /\ (pc[c] = "done" /\ ~result[c].ok) =>
                  (engine_calls[c] = 1 /\ engine_result[c].kind = "err")

C7_Witness ==
    \E c \in Calls :
        /\ Permissive(c) /\ pc[c] = "done"
        /\ options[c] = List(<<Pair(Str("bogus"), Str("x")), Pair(Str("bogus"), Str("x"))>>)
        /\ engine_config[c] = DefaultConfiguration

(* ------------------------------- C10 ---------------------------------- *)
\* Every occurrence of the key of field f is written the same way.
WrittenAlike(o, f) ==
    \A i, j \in Occurrences(o, f) : o.items[i].k.kind = o.items[j].k.kind

Prefix(c) == IF Strict(c) THEN "Formatting failed: " ELSE "Formatting error: "

\* C8: a call that reached the engine returns what the engine's outcome
\* decides: Ok(t') on changed, Ok(text) on no change, and on failure an error
\* whose string is the entry point's fixed prefix followed by the message.
C8_ResultFollowsEngineOutcome ==
    \A c \in Calls :
        (pc[c] = "done" /\ engine_calls[c] > 0) =>
            /\ engine_result[c].kind = "changed" => result[c] = Ok(engine_result[c].s)
            /\ engine_result[c].kind = "none" => result[c] = Ok(text[c])
            /\ engine_result[c].kind = "err" =>
                  /\ ~result[c].ok
                  /\ result[c].val = Prefix(c) \o engine_result[c].s

C8_Witness ==
    \E c \in Calls :
        /\ Permissive(c) /\ pc[c] = "done"
        /\ engine_result[c].kind = "err"
        /\ result[c] = Err("Formatting error: bad markdown")

(* ------------------------------- C9 ----------------------------------- *)
\* What call c builds and returns when it runs alone.
OwnConfig(c) ==
    IF Strict(c) THEN build_dprint_config(config[c]).val
    ELSE permissive_config(parse_options(options[c]))

OwnResult(c) ==
    IF Strict(c) /\ text[c] = "" THEN Ok("")
    ELSE IF Strict(c) /\ ~build_dprint_config(config[c]).ok
         THEN Err(build_dprint_config(config[c]).err)
    ELSE IF Strict(c) THEN strict_map_result(text[c], engine_result[c])
    ELSE permissive_map_result(text[c], engine_result[c])

Locals(c) ==
    <<entry[c], text[c], config[c], options[c], dprint_config[c], engine_config[c],
      engine_result[c], engine_calls[c], result[c]>>

Alone(c) ==
    /\ (pc[c] \in {"ran", "done"} /\ engine_calls[c] > 0) => engine_config[c] = OwnConfig(c)
    /\ pc[c] = "done" => result[c] = OwnResult(c)

\* Two calls given the same arguments, and the same outcome by the engine,
\* hold the same configuration and result.
SameInSameOut(c, d) ==
    (entry[c] = entry[d] /\ text[c] = text[d] /\ config[c] = config[d]
        /\ options[c] = options[d] /\ pc[c] = pc[d] /\ engine_result[c] = engine_result[d])
    => (engine_config[c] = engine_config[d] /\ result[c] = result[d]
        /\ dprint_config[c] = dprint_config[d])

\* C9: under every interleaving, the configuration a call hands to the engine
\* and the call's result are those of the call running alone on its own text
\* and configuration argument, and a step of one call changes nothing that
\* belongs to another call.
C9_CallsDoNotInterfere ==
    /\ [](\A c \in Calls : Alone(c) /\ \A d \in Calls : SameInSameOut(c, d))
    /\ [][\A c \in Calls : pc'[c] = pc[c] => Locals(c)' = Locals(c)]_vars

\* Two calls in flight at once, each with its own configuration at the engine.
C9_Witness ==
    \E c, d \in Calls :
        /\ Strict(c) /\ Permissive(d)
        /\ pc[c] = "ran" /\ pc[d] = "ran"
        /\ engine_config[c] # engine_config[d]
        /\ engine_config[c] = OwnConfig(c)

====
